---- MODULE Spec2Model ----
(***************************************************************************)
(* Model of src/src/phone_forward.c: a base-12 prefix trie of phone-number  *)
(* forwarding rules with the operations phfwdAdd, phfwdRemove, phfwdGet,    *)
(* phfwdReverse and phfwdGetReverse.                                        *)
(*                                                                         *)
(* Representation.                                                         *)
(*  - A C string is the sequence of its character codes (ASCII), without   *)
(*    the terminating 0.  C indexes from 0, the sequences from 1.          *)
(*  - A trie is a function from the paths of its nodes to their            *)
(*    forwardNumber.  A path is the sequence of child indices (0..BASE-1)  *)
(*    leading from the root <<>> to the node; children[c] of node p is the *)
(*    node Append(p, c) if that path is in the domain and NULL otherwise.  *)
(*  - A PhoneNumbers is the record [size, numbers]; the capacity of its    *)
(*    array and of the currentNum buffer (newSize, realloc) is not         *)
(*    modelled, only their contents.                                       *)
(*  - Only the allocation of a trie node (phfwdNew inside addPhoneForward) *)
(*    may fail; the code checks no other allocation.                       *)
(***************************************************************************)
EXTENDS Integers, Sequences, FiniteSets, TLC

VARIABLES pf, old, op, num1, num2, failAt, ok, pnum

vars == <<pf, old, op, num1, num2, failAt, ok, pnum>>

(***************************************************************************)
(* Program constants and bounds of the model                               *)
(***************************************************************************)
BASE == 12

\* longest prefix given to phfwdAdd / phfwdRemove
MaxPrefixLen == 2
\* longest target given to phfwdAdd
MaxTargetLen == 2
\* longest number given to phfwdGet / phfwdReverse / phfwdGetReverse
MaxQueryLen == 3
\* most nodes below the root that the trie is grown to
MaxNodes == 2

\* '1', '*', '#'
Symbols == {49, 42, 35}
\* '1', '3', '5'
Digits == {49, 51, 53}

\* the null pointer: no C string contains the character 0
NULL == <<0>>

Numbers(A, n) == UNION {[1..k -> A] : k \in 1..n}

\* NULL, "", and "1a": the numbers isNumberOk rejects
Invalid == {NULL, <<>>, <<49, 97>>}

(***************************************************************************)
(* Characters                                                              *)
(***************************************************************************)
isdigit(c) == c \in 48..57

isSymbol(c) == isdigit(c) \/ c = 42 \/ c = 35

charToInt(c) ==
  IF isdigit(c) THEN c - 48
  ELSE IF c = 42 THEN 10
  ELSE 11

intToChar(x) ==
  IF x >= 0 /\ x <= 9 THEN 48 + x
  ELSE IF x = 10 THEN 42
  ELSE 35

isNumberOk(num) ==
  /\ num # NULL
  /\ num # <<>>
  /\ \A i \in 1..Len(num) : isSymbol(num[i])

(***************************************************************************)
(* The trie                                                                *)
(***************************************************************************)
phfwdNew == (<<>> :> NULL)

\* p is the path of the node q or of one of its ancestors
IsAncestorOrSelf(p, q) ==
  /\ Len(p) <= Len(q)
  /\ \A i \in 1..Len(p) : p[i] = q[i]

\* phfwdDelete on the node at path p: the node and its whole subtree go
phfwdDelete(t, p) ==
  [q \in {r \in DOMAIN t : ~IsAncestorOrSelf(p, r)} |-> t[q]]

RECURSIVE addPhoneForwardKeep(_, _, _, _, _, _)
\* addPhoneForward that leaves a forwardNumber already set at the node as it is
addPhoneForwardKeep(t, p, n1, n2, i, budget) ==
  IF i > Len(n1)
  THEN [result |-> TRUE,
        trie |-> IF t[p] # NULL THEN t ELSE [t EXCEPT ![p] = n2]]
  ELSE LET c == Append(p, charToInt(n1[i])) IN
       IF c \notin DOMAIN t
       THEN IF budget = 0
            THEN [result |-> FALSE, trie |-> t]
            ELSE addPhoneForwardKeep(t @@ (c :> NULL), c, n1, n2, i + 1, budget - 1)
       ELSE addPhoneForwardKeep(t, c, n1, n2, i + 1, budget)

RECURSIVE addPhoneForward(_, _, _, _, _, _)
\* budget: the number of node allocations that still succeed
addPhoneForward(t, p, n1, n2, i, budget) ==
  IF i > Len(n1)
  THEN [result |-> TRUE, trie |-> [t EXCEPT ![p] = n2]]
  ELSE LET c == Append(p, charToInt(n1[i])) IN
       IF c \notin DOMAIN t
       THEN IF budget = 0
            THEN [result |-> FALSE, trie |-> t]
            ELSE addPhoneForward(t @@ (c :> NULL), c, n1, n2, i + 1, budget - 1)
       ELSE addPhoneForward(t, c, n1, n2, i + 1, budget)

RECURSIVE phoneForwardRemoveNode(_, _, _, _, _)
\* phoneForwardRemove that clears the forwardNumber of the node and keeps its subtree
phoneForwardRemoveNode(t, p, num, lenght, i) ==
  IF p \notin DOMAIN t THEN t
  ELSE LET c == Append(p, charToInt(num[i])) IN
       IF i = lenght
       THEN IF c \in DOMAIN t THEN [t EXCEPT ![c] = NULL] ELSE t
       ELSE phoneForwardRemoveNode(t, c, num, lenght, i + 1)

RECURSIVE phoneForwardRemove(_, _, _, _, _)
phoneForwardRemove(t, p, num, lenght, i) ==
  IF p \notin DOMAIN t THEN t
  ELSE IF i = lenght
       THEN phfwdDelete(t, Append(p, charToInt(num[i])))
       ELSE phoneForwardRemove(t, Append(p, charToInt(num[i])), num, lenght, i + 1)

phfwdRemove(t, num) ==
  IF num = NULL \/ ~isNumberOk(num) THEN t
  ELSE LET lenght == Len(num) IN
       IF lenght = 0 THEN t
       ELSE phoneForwardRemove(t, <<>>, num, lenght, 1)

\* phfwdAdd without the comparison of num1 with num2
phfwdAddNoSelfCheck(t, n1, n2, budget) ==
  IF ~isNumberOk(n1) \/ ~isNumberOk(n2)
  THEN [result |-> FALSE, trie |-> t]
  ELSE LET r == addPhoneForward(t, <<>>, n1, n2, 1, budget) IN
       IF ~r.result
       THEN [result |-> FALSE, trie |-> phfwdRemove(r.trie, n1)]
       ELSE r

phfwdAdd(t, n1, n2, budget) ==
  IF ~isNumberOk(n1) \/ ~isNumberOk(n2) \/ n1 = n2
  THEN [result |-> FALSE, trie |-> t]
  ELSE LET r == addPhoneForward(t, <<>>, n1, n2, 1, budget) IN
       IF ~r.result
       THEN [result |-> FALSE, trie |-> phfwdRemove(r.trie, n1)]
       ELSE r

(***************************************************************************)
(* Queries                                                                 *)
(***************************************************************************)
phnumNew == [size |-> 0, numbers |-> <<NULL>>]

phnumGet(pn, idx) ==
  IF idx >= pn.size THEN NULL ELSE pn.numbers[idx + 1]

RECURSIVE phoneForwardGetFirst(_, _, _, _, _, _)
\* phoneForwardGet that keeps the first forwardNumber met on the way down
phoneForwardGetFirst(t, p, num, pn, j, i) ==
  LET pn1 == IF t[p] # NULL /\ pn = NULL THEN t[p] ELSE pn
      j1 == IF t[p] # NULL /\ pn = NULL THEN i - 1 ELSE j
      c == Append(p, charToInt(num[i]))
  IN IF i <= Len(num) /\ c \in DOMAIN t
     THEN phoneForwardGetFirst(t, c, num, pn1, j1, i + 1)
     ELSE [pn |-> pn1, j |-> j1]

RECURSIVE phoneForwardGet(_, _, _, _, _, _)
\* the result is the pair (*pn, *j) the C code leaves behind
phoneForwardGet(t, p, num, pn, j, i) ==
  LET pn1 == IF t[p] # NULL THEN t[p] ELSE pn
      j1 == IF t[p] # NULL THEN i - 1 ELSE j
      c == Append(p, charToInt(num[i]))
  IN IF i <= Len(num) /\ c \in DOMAIN t
     THEN phoneForwardGet(t, c, num, pn1, j1, i + 1)
     ELSE [pn |-> pn1, j |-> j1]

phfwdGet(t, num) ==
  IF ~isNumberOk(num)
  THEN [phnumNew EXCEPT !.size = 1]
  ELSE LET r == phoneForwardGet(t, <<>>, num, NULL, 0, 1)
           first == IF r.pn = NULL THEN <<>> ELSE r.pn
       IN [size |-> 1,
           numbers |-> <<first \o SubSeq(num, r.j + 1, Len(num))>>]

\* isPrefixOf that asks for the whole of num
isPrefixOfWhole(prefix, num) == prefix = num

isPrefixOf(prefix, num) ==
  /\ Len(prefix) <= Len(num)
  /\ \A i \in 1..Len(prefix) : prefix[i] = num[i]

min(a, b) == IF a <= b THEN a ELSE b

\* comparator on the characters themselves, as strcmp compares
comparatorChars(a, b) ==
  LET len1 == Len(a)
      len2 == Len(b)
      diff == {i \in 1..min(len1, len2) : a[i] # b[i]}
  IN IF diff # {}
     THEN LET i == CHOOSE k \in diff : \A m \in diff : k <= m
          IN IF a[i] > b[i] THEN 1 ELSE -1
     ELSE IF len1 < len2 THEN -1
     ELSE IF len1 > len2 THEN 1
     ELSE 0

comparator(a, b) ==
  LET len1 == Len(a)
      len2 == Len(b)
      diff == {i \in 1..min(len1, len2) : charToInt(a[i]) # charToInt(b[i])}
  IN IF diff # {}
     THEN LET i == CHOOSE k \in diff : \A m \in diff : k <= m
          IN IF charToInt(a[i]) > charToInt(b[i]) THEN 1 ELSE -1
     ELSE IF len1 < len2 THEN -1
     ELSE IF len1 > len2 THEN 1
     ELSE 0

qsort(numbers) == SortSeq(numbers, LAMBDA a, b : comparator(a, b) < 0)

RECURSIVE reverse(_, _, _, _, _, _)
RECURSIVE reverseChildren(_, _, _, _, _, _, _)
\* the result is pn->numbers[0 .. *j-1] after the call
reverse(t, p, reverseNum, currentNum, index, numbers) ==
  IF p \notin DOMAIN t THEN numbers
  ELSE LET found ==
             IF t[p] # NULL /\ isPrefixOf(t[p], reverseNum)
             THEN Append(numbers,
                         SubSeq(currentNum, 1, index)
                           \o SubSeq(reverseNum, Len(t[p]) + 1, Len(reverseNum)))
             ELSE numbers
       IN reverseChildren(t, p, reverseNum, currentNum, index, 0, found)

\* the loop over the children of the node at p, from child i on
reverseChildren(t, p, reverseNum, currentNum, index, i, numbers) ==
  IF i >= BASE THEN numbers
  ELSE LET cur == SubSeq(currentNum, 1, index) \o <<intToChar(i)>>
       IN reverseChildren(t, p, reverseNum, cur, index, i + 1,
                          reverse(t, Append(p, i), reverseNum, cur, index + 1, numbers))

RECURSIVE removeDuplicatesDropLast(_, _, _)
\* removeDuplicates without the copy of the last number
removeDuplicatesDropLast(numbers, i, kept) ==
  IF i >= Len(numbers) THEN kept
  ELSE removeDuplicatesDropLast(numbers, i + 1,
                                IF numbers[i] # numbers[i + 1]
                                THEN Append(kept, numbers[i]) ELSE kept)

RECURSIVE removeDuplicates(_, _, _)
\* the copy loop of phfwdReverse: numbers[i] is kept when it differs from its successor
removeDuplicates(numbers, i, kept) ==
  IF i >= Len(numbers) THEN Append(kept, numbers[Len(numbers)])
  ELSE removeDuplicates(numbers, i + 1,
                        IF numbers[i] # numbers[i + 1]
                        THEN Append(kept, numbers[i]) ELSE kept)

\* phfwdReverse that leaves size at 0 for a number that is not valid
phfwdReverseNoSize(t, num) ==
  IF ~isNumberOk(num)
  THEN phnumNew
  ELSE LET found == reverse(t, <<>>, num, <<>>, 0, <<>>)
           sorted == qsort(Append(found, num))
           kept == removeDuplicates(sorted, 1, <<>>)
       IN [size |-> Len(kept), numbers |-> kept]

phfwdReverse(t, num) ==
  IF ~isNumberOk(num)
  THEN [phnumNew EXCEPT !.size = 1]
  ELSE LET found == reverse(t, <<>>, num, <<>>, 0, <<>>)
           sorted == qsort(Append(found, num))
           kept == removeDuplicates(sorted, 1, <<>>)
       IN [size |-> Len(kept), numbers |-> kept]

RECURSIVE getReverseLoopAll(_, _, _, _, _)
\* getReverseLoop that keeps every number of pn whatever phfwdGet gives for it
getReverseLoopAll(t, num, pn, i, kept) ==
  IF i > pn.size THEN kept
  ELSE getReverseLoopAll(t, num, pn, i + 1, Append(kept, pn.numbers[i]))

RECURSIVE getReverseLoop(_, _, _, _, _)
getReverseLoop(t, num, pn, i, kept) ==
  IF i > pn.size THEN kept
  ELSE LET testPn == phfwdGet(t, pn.numbers[i])
       IN getReverseLoop(t, num, pn, i + 1,
                         IF testPn.size # 0 /\ testPn.numbers[1] = num
                         THEN Append(kept, pn.numbers[i]) ELSE kept)

phfwdGetReverse(t, num) ==
  IF ~isNumberOk(num)
  THEN [phnumNew EXCEPT !.size = 1]
  ELSE LET kept == getReverseLoop(t, num, phfwdReverse(t, num), 1, <<>>)
       IN [size |-> Len(kept), numbers |-> kept]

(***************************************************************************)
(* The state machine: one action per call of the interface.  A call runs    *)
(* from entry to return in one step and leaves its arguments, its result    *)
(* and the trie it started from (old) in the state until the caller is done *)
(* with it (Return).                                                       *)
(***************************************************************************)
NoResult == [size |-> 0, numbers |-> <<>>]

\* the trie phfwdNew returns; no call of the interface is under way
Init ==
  /\ pf = phfwdNew
  /\ old = phfwdNew
  /\ op = "none"
  /\ num1 = NULL
  /\ num2 = NULL
  /\ failAt = 0
  /\ ok = TRUE
  /\ pnum = NoResult

\* the path of the node a number leads to
PathOf(num) == [i \in 1..Len(num) |-> charToInt(num[i])]

\* the nodes phfwdAdd(t, n1, ..) has to allocate
NodesNeeded(t, n1) ==
  Cardinality({k \in 1..Len(n1) : PathOf(SubSeq(n1, 1, k)) \notin DOMAIN t})

\* f = 0: every allocation succeeds; f = k > 0: the k-th allocation of the call fails
Add(n1, n2, f) ==
  /\ op = "none"
  /\ IF isNumberOk(n1) /\ isNumberOk(n2) /\ n1 # n2
     THEN /\ f <= NodesNeeded(pf, n1)
          /\ Cardinality(DOMAIN pf) - 1 + NodesNeeded(pf, n1) <= MaxNodes
     ELSE f = 0
  /\ LET r == phfwdAdd(pf, n1, n2, IF f = 0 THEN Len(n1) ELSE f - 1)
     IN /\ pf' = r.trie
        /\ ok' = r.result
  /\ old' = pf
  /\ op' = "phfwdAdd"
  /\ num1' = n1
  /\ num2' = n2
  /\ failAt' = f
  /\ pnum' = NoResult

Remove(n) ==
  /\ op = "none"
  /\ pf' = phfwdRemove(pf, n)
  /\ old' = pf
  /\ op' = "phfwdRemove"
  /\ num1' = n
  /\ num2' = NULL
  /\ failAt' = 0
  /\ ok' = TRUE
  /\ pnum' = NoResult

Get(n) ==
  /\ op = "none"
  /\ pnum' = phfwdGet(pf, n)
  /\ op' = "phfwdGet"
  /\ num1' = n
  /\ num2' = NULL
  /\ failAt' = 0
  /\ ok' = TRUE
  /\ old' = pf
  /\ UNCHANGED pf

Reverse(n) ==
  /\ op = "none"
  /\ pnum' = phfwdReverse(pf, n)
  /\ op' = "phfwdReverse"
  /\ num1' = n
  /\ num2' = NULL
  /\ failAt' = 0
  /\ ok' = TRUE
  /\ old' = pf
  /\ UNCHANGED pf

GetReverse(n) ==
  /\ op = "none"
  /\ pnum' = phfwdGetReverse(pf, n)
  /\ op' = "phfwdGetReverse"
  /\ num1' = n
  /\ num2' = NULL
  /\ failAt' = 0
  /\ ok' = TRUE
  /\ old' = pf
  /\ UNCHANGED pf

\* The caller is done with the call: it releases the list a query returned
\* (phnumDelete) and keeps nothing of the call but the trie.
Return ==
  /\ op # "none"
  /\ op' = "none"
  /\ old' = pf
  /\ num1' = NULL
  /\ num2' = NULL
  /\ failAt' = 0
  /\ ok' = TRUE
  /\ pnum' = NoResult
  /\ UNCHANGED pf

Calls(A) ==
  \/ \E n1 \in Numbers(A, MaxPrefixLen) \cup Invalid,
        n2 \in Numbers(A, MaxTargetLen) \cup Invalid,
        f \in 0..MaxPrefixLen : Add(n1, n2, f)
  \/ \E n \in Numbers(A, MaxPrefixLen) \cup Invalid : Remove(n)
  \/ \E n \in Numbers(A, MaxQueryLen) \cup Invalid : Get(n)
  \/ \E n \in Numbers(A, MaxQueryLen) \cup Invalid : Reverse(n)
  \/ \E n \in Numbers(A, MaxQueryLen) \cup Invalid : GetReverse(n)
  \/ Return

Next == Calls(Symbols)

NextDigits == Calls(Digits)

Spec == Init /\ [][Next]_vars

SpecDigits == Init /\ [][NextDigits]_vars

(***************************************************************************)
(* The vocabulary of the claims, stated without the operators of the code  *)
(***************************************************************************)
\* the 12 symbols in the order of their codes: '0'..'9', '*', '#'
Alphabet == <<48, 49, 50, 51, 52, 53, 54, 55, 56, 57, 42, 35>>

Range(s) == {s[i] : i \in 1..Len(s)}

ValidNumber(n) ==
  /\ n # NULL
  /\ Len(n) > 0
  /\ \A i \in 1..Len(n) : n[i] \in Range(Alphabet)

CodeOf(c) == CHOOSE k \in 0..11 : Alphabet[k + 1] = c

\* p is a prefix of n
StartsWith(n, p) == Len(p) <= Len(n) /\ SubSeq(n, 1, Len(p)) = p

Rest(n, k) == SubSeq(n, k + 1, Len(n))

\* the registered rules of a trie: a prefix with the target stored at its node
Rules(t) ==
  {[prefix |-> [i \in 1..Len(p) |-> Alphabet[p[i] + 1]], target |-> t[p]] :
     p \in {q \in DOMAIN t : t[q] # NULL}}

\* the symbols of n and of the registered prefixes and targets
UsedSymbols(t, n) ==
  Range(n) \cup UNION {Range(r.prefix) \cup Range(r.target) : r \in Rules(t)}

\* the rules that apply to n
Matching(t, n) == {r \in Rules(t) : StartsWith(n, r.prefix)}

Longest(M) == CHOOSE r \in M : \A q \in M : Len(q.prefix) <= Len(r.prefix)

\* a comes before b: symbol codes position by position, a proper prefix first
Before(a, b) ==
  \/ Len(a) < Len(b) /\ StartsWith(b, a)
  \/ \E k \in 1..min(Len(a), Len(b)) :
       /\ \A i \in 1..(k - 1) : a[i] = b[i]
       /\ CodeOf(a[k]) < CodeOf(b[k])

\* what phfwdGet gives for a valid number
Forwarded(t, n) == phfwdGet(t, n).numbers[1]

ValidCall == ValidNumber(num1) /\ ValidNumber(num2) /\ num1 # num2

\* the longest number that can forward to a number of at most MaxQueryLen symbols
MaxSourceLen == MaxPrefixLen + MaxQueryLen - 1

(***************************************************************************)
(* C1                                                                      *)
(***************************************************************************)
\* C1: phfwdGet of a valid number n gives exactly one string: the target of the
\* longest registered prefix of n followed by the rest of n behind that prefix,
\* and n itself when no registered prefix is a prefix of n.
C1_GetLongestPrefix ==
  (op = "phfwdGet" /\ ValidNumber(num1)) =>
    /\ pnum.size = 1
    /\ Len(pnum.numbers) = 1
    /\ LET M == Matching(pf, num1)
       IN pnum.numbers[1] =
            IF M = {} THEN num1
            ELSE Longest(M).target \o Rest(num1, Len(Longest(M).prefix))

\* two registered prefixes of different length match a number longer than both
C1_Witness ==
  /\ op = "phfwdGet"
  /\ ValidNumber(num1)
  /\ Cardinality(Matching(pf, num1)) = 2
  /\ Len(num1) > Len(Longest(Matching(pf, num1)).prefix)

(***************************************************************************)
(* C2                                                                      *)
(***************************************************************************)
\* C2: phfwdGetReverse of a valid number n gives the numbers of phfwdReverse(n),
\* in the same order, for which phfwdGet gives n; each of its numbers y has
\* phfwdGet(y) = n and is a number of phfwdReverse(n).
C2_GetReverseFiltersReverse ==
  (op = "phfwdGetReverse" /\ ValidNumber(num1)) =>
    LET rev == phfwdReverse(pf, num1).numbers
    IN /\ pnum.numbers = SelectSeq(rev, LAMBDA y : Forwarded(pf, y) = num1)
       /\ pnum.size = Len(pnum.numbers)
       /\ \A y \in Range(pnum.numbers) :
            Forwarded(pf, y) = num1 /\ y \in Range(rev)

\* the filter drops one candidate of phfwdReverse and keeps another
C2_Witness ==
  /\ op = "phfwdGetReverse"
  /\ ValidNumber(num1)
  /\ pnum.size >= 1
  /\ pnum.size < phfwdReverse(pf, num1).size

(***************************************************************************)
(* C3                                                                      *)
(***************************************************************************)
\* C3: phfwdReverse of a valid number n gives, strictly increasing in the order
\* 0-9 < * < # taken position by position (a proper prefix first), exactly the
\* numbers P + n[len(T):] of the rules P -> T whose target T is a prefix of n,
\* and n itself.
C3_ReverseSortedSet ==
  (op = "phfwdReverse" /\ ValidNumber(num1)) =>
    /\ pnum.size = Len(pnum.numbers)
    /\ \A i \in 1..(Len(pnum.numbers) - 1) :
         Before(pnum.numbers[i], pnum.numbers[i + 1])
    /\ Range(pnum.numbers) =
         {r.prefix \o Rest(num1, Len(r.target)) :
            r \in {q \in Rules(pf) : StartsWith(num1, q.target)}}
         \cup {num1}

\* two rules give the same number and phfwdReverse gives it once
C3_DuplicateDropped ==
  /\ op = "phfwdReverse"
  /\ ValidNumber(num1)
  /\ \E r, q \in Rules(pf) :
       /\ r # q
       /\ StartsWith(num1, r.target)
       /\ StartsWith(num1, q.target)
       /\ r.prefix \o Rest(num1, Len(r.target)) = q.prefix \o Rest(num1, Len(q.target))
  /\ pnum.size = 2

\* the numbers "1", "*" and "#" come out in the order of their codes
C3_Witness ==
  /\ op = "phfwdReverse"
  /\ Cardinality(Rules(pf)) = 2
  /\ pnum.numbers = <<<<49>>, <<42>>, <<35>>>>

(***************************************************************************)
(* C4                                                                      *)
(***************************************************************************)
\* C4: after phfwdRemove of a valid number n the rules are the rules before the
\* call without those whose prefix is n or starts with n; every other rule keeps
\* its target.
C4_RemoveSubtree ==
  (op = "phfwdRemove" /\ ValidNumber(num1)) =>
    /\ Rules(pf) = {r \in Rules(old) : ~StartsWith(r.prefix, num1)}
    /\ \A r \in Rules(pf) : ~StartsWith(r.prefix, num1)
    /\ \A m \in {num1} \cup {num1 \o s : s \in Numbers(UsedSymbols(old, num1), 1)} :
         LET M == {r \in Matching(old, m) : ~StartsWith(r.prefix, num1)}
         IN Forwarded(pf, m) =
              IF M = {} THEN m
              ELSE Longest(M).target \o Rest(m, Len(Longest(M).prefix))

\* the rule at n and a rule at a longer prefix are removed by one call
C4_Witness ==
  /\ op = "phfwdRemove"
  /\ ValidNumber(num1)
  /\ \E r, q \in Rules(old) :
       r.prefix = num1 /\ q.prefix # num1 /\ StartsWith(q.prefix, num1)
  /\ Rules(pf) = {}

(***************************************************************************)
(* C5                                                                      *)
(***************************************************************************)
\* C5: phfwdAdd of valid p and x, p # x, with no allocation failing, returns
\* true and changes one rule: the target at p is x, whatever it was, and the
\* rule at every other prefix is as before; phfwdGet of p then gives x.
C5_AddOneRule ==
  (op = "phfwdAdd" /\ ValidCall /\ failAt = 0) =>
    /\ ok
    /\ Rules(pf) = {r \in Rules(old) : r.prefix # num1}
                     \cup {[prefix |-> num1, target |-> num2]}
    /\ Forwarded(pf, num1) = num2

\* the target at p is replaced while a rule at a longer prefix is registered
C5_Witness ==
  /\ op = "phfwdAdd"
  /\ ValidCall
  /\ failAt = 0
  /\ ok
  /\ \E r, q \in Rules(old) :
       /\ r.prefix = num1 /\ r.target # num2
       /\ q.prefix # num1 /\ StartsWith(q.prefix, num1)

(***************************************************************************)
(* C6                                                                      *)
(***************************************************************************)
\* C6: phfwdAdd returns false and leaves the trie as it was, nodes and targets,
\* when the prefix or the target is not a valid number or the two are equal.
C6_AddRejects ==
  (op = "phfwdAdd" /\ ~ValidCall) => (~ok /\ pf = old)

\* a number is forwarded to itself in a trie that holds a rule for it
C6_Witness ==
  /\ op = "phfwdAdd"
  /\ ValidNumber(num1)
  /\ num1 = num2
  /\ Matching(pf, num1) # {}
  /\ ~ok

(***************************************************************************)
(* C7                                                                      *)
(***************************************************************************)
\* C7: when the allocation of a node fails during phfwdAdd the call returns
\* false and the trie is as it was before the call: the nodes the call created
\* are removed again and no node or target that was there is changed.
C7_AddFailureRestoresTrie ==
  (op = "phfwdAdd" /\ ValidCall /\ failAt > 0) => (~ok /\ pf = old)

\* what holds of the code instead: the call returns false, the rules are those
\* before the call, and the nodes created before the failure stay in the trie
C7_AddFailureKeepsRules ==
  (op = "phfwdAdd" /\ ValidCall /\ failAt > 0) =>
    /\ ~ok
    /\ Rules(pf) = Rules(old)
    /\ \A p \in DOMAIN old : p \in DOMAIN pf /\ pf[p] = old[p]
    /\ Cardinality(DOMAIN pf) = Cardinality(DOMAIN old) + failAt - 1

(***************************************************************************)
(* C8                                                                      *)
(***************************************************************************)
\* the trie whose only rule is "13" -> "5", asked for "513"
C8_Scenario ==
  /\ op = "phfwdGetReverse"
  /\ num1 = <<53, 49, 51>>
  /\ Rules(pf) = {[prefix |-> <<49, 51>>, target |-> <<53>>]}

\* C8 as stated: in the trie whose only rule is "13" -> "5", phfwdGetReverse of
\* "513" gives "1313" and nothing else; "513" itself is left out.
C8_OnlySource ==
  C8_Scenario => (pnum.size = 1 /\ pnum.numbers = <<<<49, 51, 49, 51>>>>)

\* C8 amended: in the trie whose only rule is "13" -> "5", phfwdGetReverse of
\* "513" gives "1313" and "513", in this order: phfwdGet of "513" is "513".
C8_SourceAndItself ==
  C8_Scenario =>
    /\ pnum.size = 2
    /\ pnum.numbers = <<<<49, 51, 49, 51>>, <<53, 49, 51>>>>
    /\ Forwarded(pf, <<53, 49, 51>>) = <<53, 49, 51>>
    /\ <<53, 49, 51>> \in Range(phfwdReverse(pf, num1).numbers)

C8_Witness == C8_Scenario

(***************************************************************************)
(* C9                                                                      *)
(***************************************************************************)
\* C9: for a number that is not valid, phfwdGet, phfwdReverse and
\* phfwdGetReverse each give a list of size 1 whose element 0 is absent (NULL),
\* and the trie is unchanged.
C9_InvalidQuery ==
  (op \in {"phfwdGet", "phfwdReverse", "phfwdGetReverse"} /\ ~ValidNumber(num1)) =>
    /\ pnum.size = 1
    /\ phnumGet(pnum, 0) = NULL
    /\ phnumGet(pnum, 1) = NULL
    /\ pf = old

\* phfwdReverse is asked for a number with a character outside the alphabet
C9_Witness ==
  /\ op = "phfwdReverse"
  /\ num1 # NULL
  /\ Len(num1) = 2
  /\ ~ValidNumber(num1)
  /\ Rules(pf) # {}
  /\ pnum.size = 1

(***************************************************************************)
(* C10                                                                     *)
(***************************************************************************)
\* C10: a valid number X is in phfwdGetReverse(n) exactly when phfwdGet(X) = n;
\* so n itself is in it exactly when no registered prefix is a prefix of n.
C10_GetReverseInvertsGet ==
  (op = "phfwdGetReverse" /\ ValidNumber(num1)) =>
    /\ \A X \in Numbers(UsedSymbols(pf, num1), MaxSourceLen) :
         (X \in Range(pnum.numbers)) <=> (Forwarded(pf, X) = num1)
    /\ \A X \in Range(pnum.numbers) : ValidNumber(X) /\ Forwarded(pf, X) = num1
    /\ (num1 \in Range(pnum.numbers)) <=> (Matching(pf, num1) = {})

\* a number longer than n forwards to n and n itself does not
C10_Witness ==
  /\ op = "phfwdGetReverse"
  /\ ValidNumber(num1)
  /\ num1 \notin Range(pnum.numbers)
  /\ \E X \in Range(pnum.numbers) : Len(X) > Len(num1)

====
